---- MODULE Spec2Model ----
(***************************************************************************)
(* Model of the web material sandbox sample.                               *)
(*                                                                         *)
(* Two programs of the repository are modelled over the same variables:    *)
(*   - src/samples/web/sandbox.cpp: setup / animate / ui / launch / main,  *)
(*     specification Spec;                                                 *)
(*   - src/unnamed/part_000, the self-contained variant that keeps one     *)
(*     material instance (app.mi) and pushes the material parameters       *)
(*     inside ui: p0_setup / p0_animate / p0_ui / p0_launch / p0_main,     *)
(*     specification SpecP0.                                               *)
(*                                                                         *)
(* Floats are integers in thousandths (0.6f is 600, 110000.0f is           *)
(* 110000000).  A colour is a triple of thousandths.  The state of engine  *)
(* objects (material instances, light, indirect light) is the last         *)
(* argument handed to each of their setters; a setter never called is      *)
(* absent from the function's domain.                                      *)
(***************************************************************************)
EXTENDS Integers, Sequences, FiniteSets, TLC

VARIABLES
    mainCalled,     \* main() has run
    jsReady,        \* the JavaScript layer has a WebGL context and the assets
    launched,       \* launch() has been called
    phase,          \* "idle", or the callback the frame loop runs next
    frames,         \* completed frames (animate + ui)
    setupCount,     \* number of calls of setup
    unsetRead,      \* a callback has read a field of app that setup had not set
    app,            \* SandboxApp: which of its fields have been assigned
    params,         \* app.params, the SandboxParameters record
    open,           \* ImGui: which collapsing headers are open
    shown,          \* widgets submitted by the last ui frame
    pushed,         \* material parameters set by the last ui frame
    material,       \* the local `material` of the last ui frame
    mi,             \* material instance -> parameter -> last value set
    meshMaterial,   \* material instance of the mesh's primitives
    meshCastShadows,\* cast-shadows flag of the mesh's renderable
    scene,          \* entities in the scene
    sceneMisuse,    \* an entity was added while present or removed while absent
    light,          \* directional light: field -> last value set
    ibl,            \* indirect light: field -> last value set
    meshData,       \* static `mesh`: "absent", "held" or "null"
    decoded,        \* decodeMesh has been given mesh.data.get()
    pendingRelease, \* buffers of the mesh whose release callback has not run
    frees,          \* deallocations of the raw mesh data
    proj            \* camera projection set by animate

vars == <<mainCalled, jsReady, launched, phase, frames, setupCount, unsetRead,
          app, params, open, shown, pushed, material, mi, meshMaterial,
          meshCastShadows, scene, sceneMisuse, light, ibl, meshData, decoded,
          pendingRelease, frees, proj>>

----------------------------------------------------------------------------
\* Bounds of the model

MaxFrames == 2

\* Buffers decodeMesh creates over the one asset (vertex buffer, index buffer)
NumMeshBuffers == 2

----------------------------------------------------------------------------
\* Constants of the program

MATERIAL_MODEL_UNLIT == 0
MATERIAL_MODEL_LIT == 1
MATERIAL_MODEL_SUBSURFACE == 2
MATERIAL_MODEL_CLOTH == 3

MATERIAL_UNLIT == 0
MATERIAL_LIT == 1
MATERIAL_SUBSURFACE == 2
MATERIAL_CLOTH == 3
MATERIAL_TRANSPARENT == 4
MATERIAL_FADE == 5
MATERIAL_COUNT == 6

BLENDING_OPAQUE == 0
BLENDING_TRANSPARENT == 1
BLENDING_FADE == 2

M_PI == 3142

Models == {MATERIAL_MODEL_UNLIT, MATERIAL_MODEL_LIT, MATERIAL_MODEL_SUBSURFACE,
           MATERIAL_MODEL_CLOTH}

Blendings == {BLENDING_OPAQUE, BLENDING_TRANSPARENT, BLENDING_FADE}

\* struct SandboxParameters, with its default member initialisers
SandboxParameters ==
    [color |-> <<690, 690, 690>>,
     alpha |-> 1000,
     roughness |-> 600,
     metallic |-> 0,
     reflectance |-> 500,
     clearCoat |-> 0,
     clearCoatRoughness |-> 0,
     anisotropy |-> 0,
     thickness |-> 1000,
     subsurfacePower |-> 12234,
     subsurfaceColor |-> <<0, 0, 0>>,
     sheenColor |-> <<830, 0, 0>>,
     currentMaterialModel |-> MATERIAL_MODEL_LIT,
     currentBlending |-> BLENDING_OPAQUE,
     castShadows |-> TRUE,
     lightColor |-> <<980, 920, 890>>,
     lightIntensity |-> 110000000,
     lightDirection |-> <<600, -1000, -800>>,
     iblIntensity |-> 30000000,
     iblRotation |-> 0,
     sunHaloSize |-> 10000,
     sunHaloFalloff |-> 80000,
     sunAngularRadius |-> 1900,
     directionalLightEnabled |-> TRUE]

\* The members material_sandbox.h adds to SandboxParameters that sandbox.cpp
\* reads: hasDirectionalLight tells whether params.light is in the scene.
HeaderParameters == [hasDirectionalLight |-> TRUE]

----------------------------------------------------------------------------
\* Helpers

Put(f, k, v) == [x \in (DOMAIN f) \cup {k} |-> IF x = k THEN v ELSE f[x]]

NoFields == [x \in {} |-> 0]

Clamp(v, lo, hi) == IF v < lo THEN lo ELSE IF v > hi THEN hi ELSE v

----------------------------------------------------------------------------
\* The ImGui window of ui

Combos == {"currentMaterialModel", "currentBlending"}

ColorEdits == {"color", "subsurfaceColor", "sheenColor", "lightColor"}

Checkboxes == {"castShadows", "directionalLightEnabled"}

Sliders == {"alpha", "roughness", "metallic", "reflectance", "clearCoat",
            "clearCoatRoughness", "anisotropy", "thickness", "subsurfacePower",
            "lightIntensity", "sunAngularRadius", "sunHaloSize",
            "sunHaloFalloff", "iblIntensity"}

Headers == {"Material", "Object", "Light"}

\* The widgets in the order ui submits them
WidgetOrder ==
    <<"currentMaterialModel", "currentBlending", "color", "alpha", "roughness",
      "metallic", "reflectance", "clearCoat", "clearCoatRoughness",
      "anisotropy", "thickness", "subsurfacePower", "subsurfaceColor",
      "sheenColor", "castShadows", "directionalLightEnabled", "lightColor",
      "lightIntensity", "lightDirection", "sunAngularRadius", "sunHaloSize",
      "sunHaloFalloff", "iblIntensity", "iblRotation">>

Widgets == {WidgetOrder[i] : i \in 1..Len(WidgetOrder)}

\* SliderRange with the v_min of subsurfacePower at 0
SliderRangeWide ==
    [alpha |-> <<0, 1000>>,
     roughness |-> <<0, 1000>>,
     metallic |-> <<0, 1000>>,
     reflectance |-> <<0, 1000>>,
     clearCoat |-> <<0, 1000>>,
     clearCoatRoughness |-> <<0, 1000>>,
     anisotropy |-> <<-1000, 1000>>,
     thickness |-> <<0, 1000>>,
     subsurfacePower |-> <<0, 24000>>,
     lightIntensity |-> <<0, 150000000>>,
     lightDirection |-> <<-1000, 1000>>,
     sunAngularRadius |-> <<100, 10000>>,
     sunHaloSize |-> <<1010, 40000>>,
     sunHaloFalloff |-> <<0, 2048000>>,
     iblIntensity |-> <<0, 50000000>>]

\* v_min and v_max of every SliderFloat / SliderFloat3 call
SliderRange ==
    [alpha |-> <<0, 1000>>,
     roughness |-> <<0, 1000>>,
     metallic |-> <<0, 1000>>,
     reflectance |-> <<0, 1000>>,
     clearCoat |-> <<0, 1000>>,
     clearCoatRoughness |-> <<0, 1000>>,
     anisotropy |-> <<-1000, 1000>>,
     thickness |-> <<0, 1000>>,
     subsurfacePower |-> <<1000, 24000>>,
     lightIntensity |-> <<0, 150000000>>,
     lightDirection |-> <<-1000, 1000>>,
     sunAngularRadius |-> <<100, 10000>>,
     sunHaloSize |-> <<1010, 40000>>,
     sunHaloFalloff |-> <<0, 2048000>>,
     iblIntensity |-> <<0, 50000000>>]

\* SliderAngle's default range, in degrees
SliderAngleRange == <<-360, 360>>

\* Degrees to radians (thousandths of a radian)
DegToRad(d) == (d * M_PI) \div 180

\* ImGui::SliderFloat: the value the slider writes for the requested position
SliderFloat(v, lo, hi) == Clamp(v, lo, hi)

\* ImGui::CollapsingHeader: a click toggles the header; it returns whether the
\* header is open.  "Material" has ImGuiTreeNodeFlags_DefaultOpen.
DefaultOpen == [Material |-> TRUE, Object |-> FALSE, Light |-> FALSE]

CollapsingHeader(o, ev) ==
    IF ev.w \in Headers THEN [o EXCEPT ![ev.w] = ~@] ELSE o

\* The blending combo submitted whatever the model
BlendingComboAlways(p) == TRUE

\* The condition under which ui submits the blending combo
BlendingComboShown(p) == p.currentMaterialModel = MATERIAL_MODEL_LIT

\* The conditions under which ui submits widget w, given the record as it is
\* when the widget is reached and the open headers
Visible(w, p, o) ==
    LET m == p.currentMaterialModel
        b == p.currentBlending
        lit == m > MATERIAL_MODEL_UNLIT
    IN  CASE w \in {"currentMaterialModel", "color"} -> o.Material
          [] w = "currentBlending" -> o.Material /\ BlendingComboShown(p)
          [] w = "alpha" ->
                o.Material /\ lit
                /\ (b = BLENDING_TRANSPARENT \/ b = BLENDING_FADE)
          [] w = "roughness" -> o.Material /\ lit
          [] w \in {"metallic", "reflectance"} ->
                o.Material /\ lit /\ m # MATERIAL_MODEL_CLOTH
          [] w \in {"clearCoat", "clearCoatRoughness", "anisotropy"} ->
                o.Material /\ lit /\ m # MATERIAL_MODEL_CLOTH
                /\ m # MATERIAL_MODEL_SUBSURFACE
          [] w \in {"thickness", "subsurfacePower"} ->
                o.Material /\ lit /\ m = MATERIAL_MODEL_SUBSURFACE
          [] w = "subsurfaceColor" ->
                o.Material /\ lit
                /\ (m = MATERIAL_MODEL_SUBSURFACE \/ m = MATERIAL_MODEL_CLOTH)
          [] w = "sheenColor" -> o.Material /\ lit /\ m = MATERIAL_MODEL_CLOTH
          [] w = "castShadows" -> o.Object
          [] OTHER -> o.Light

\* One submitted widget: it writes its variable when the user acts on it
Widget(p, ev, w) ==
    IF ev.w # w THEN p
    ELSE CASE w \in Combos \cup ColorEdits -> [p EXCEPT ![w] = ev.v]
           [] w \in Checkboxes -> [p EXCEPT ![w] = ~@]
           [] w \in Sliders ->
                [p EXCEPT ![w] = SliderFloat(ev.v, SliderRange[w][1],
                                             SliderRange[w][2])]
           [] w = "lightDirection" ->
                [p EXCEPT ![w][ev.i] = SliderFloat(ev.v, SliderRange[w][1],
                                                   SliderRange[w][2])]
           [] w = "iblRotation" ->
                [p EXCEPT ![w] = DegToRad(Clamp(ev.v, SliderAngleRange[1],
                                                SliderAngleRange[2]))]

\* The widgets from the i-th on, each drawn on the record the ones before it
\* left (q is that record, evaluated once)
RECURSIVE DrawFrom(_, _, _, _)
DrawFrom(p, o, ev, i) ==
    IF i > Len(WidgetOrder) THEN p
    ELSE CHOOSE r \in
            {DrawFrom(IF Visible(WidgetOrder[i], q, o)
                      THEN Widget(q, ev, WidgetOrder[i]) ELSE q,
                      o, ev, i + 1) : q \in {p}} : TRUE

\* The window between ImGui::Begin and ImGui::End
Draw(p, o, ev) == DrawFrom(p, o, ev, 1)

ShownWidgets(p, o) == {w \in Widgets : Visible(w, p, o)}

----------------------------------------------------------------------------
\* Forwarding of the record to the material instance

MaterialParams ==
    {"baseColor", "alpha", "roughness", "metallic", "reflectance", "clearCoat",
     "clearCoatRoughness", "anisotropy", "thickness", "subsurfacePower",
     "subsurfaceColor", "sheenColor"}

\* The member of SandboxParameters a material parameter is set from
ParamField(n) == IF n = "baseColor" THEN "color" ELSE n

\* The argument of setParameter for parameter n
Forward(p, n) ==
    IF n \in {"baseColor", "subsurfaceColor", "sheenColor"}
    THEN [rgbType |-> "sRGB", rgb |-> p[ParamField(n)]]
    ELSE p[n]

\* The material index without the test on the lit model
MaterialIndexUnguarded(model, blending) ==
    IF blending = BLENDING_FADE THEN MATERIAL_FADE
    ELSE IF blending = BLENDING_TRANSPARENT THEN MATERIAL_TRANSPARENT
    ELSE model

\* int material = ...
MaterialIndex(model, blending) ==
    IF model = MATERIAL_MODEL_LIT
    THEN IF blending = BLENDING_FADE THEN MATERIAL_FADE
         ELSE IF blending = BLENDING_TRANSPARENT THEN MATERIAL_TRANSPARENT
         ELSE model
    ELSE model

\* The setParameter calls without those of "metallic"
PushedParamsNoMetallic(model, blending) ==
    CASE model = MATERIAL_MODEL_UNLIT -> {"baseColor"}
      [] model = MATERIAL_MODEL_LIT ->
            {"baseColor", "roughness", "reflectance", "clearCoat",
             "clearCoatRoughness", "anisotropy"}
            \cup (IF blending # BLENDING_OPAQUE THEN {"alpha"} ELSE {})
      [] model = MATERIAL_MODEL_SUBSURFACE ->
            {"baseColor", "roughness", "reflectance", "thickness",
             "subsurfacePower", "subsurfaceColor"}
      [] OTHER -> {"baseColor", "roughness", "sheenColor", "subsurfaceColor"}

\* The parameters the setParameter calls of one frame set
PushedParams(model, blending) ==
    CASE model = MATERIAL_MODEL_UNLIT -> {"baseColor"}
      [] model = MATERIAL_MODEL_LIT ->
            {"baseColor", "roughness", "metallic", "reflectance", "clearCoat",
             "clearCoatRoughness", "anisotropy"}
            \cup (IF blending # BLENDING_OPAQUE THEN {"alpha"} ELSE {})
      [] model = MATERIAL_MODEL_SUBSURFACE ->
            {"baseColor", "roughness", "metallic", "reflectance", "thickness",
             "subsurfacePower", "subsurfaceColor"}
      [] model = MATERIAL_MODEL_CLOTH ->
            {"baseColor", "roughness", "sheenColor", "subsurfaceColor"}
      [] OTHER -> {}

\* The material instance after the setParameter calls of one frame
PushMaterial(inst, p) ==
    LET set == PushedParams(p.currentMaterialModel, p.currentBlending)
    IN  [n \in (DOMAIN inst) \cup set |->
            IF n \in set THEN Forward(p, n) ELSE inst[n]]

----------------------------------------------------------------------------
\* Engine objects the sample calls into

\* Scene::addEntity / Scene::remove, with whether the call found the entity
\* already present / already absent
AddEntity(sc, e) == [scene |-> sc \cup {e}, misuse |-> e \in sc]

RemoveEntity(sc, e) == [scene |-> sc \ {e}, misuse |-> e \notin sc]

\* A callback that frees the data and leaves asset->data pointing at it
ReleaseWithoutReset(d) == [data |-> d, freed |-> d = "held"]

\* The release callback: asset->data.reset() frees the data when held and
\* leaves the pointer null
destructor(d) == [data |-> "null", freed |-> d = "held"]

\* filaweb::getRawFile in the initialiser of the function-local static `mesh`:
\* it runs the first time control passes the declaration
StaticMesh(d) == IF d = "absent" THEN "held" ELSE d

\* updateInstances of material_sandbox.h: the light manager receives the
\* record's light fields
PushLight(p) ==
    [color |-> [rgbType |-> "sRGB", rgb |-> p.lightColor],
     intensity |-> p.lightIntensity,
     direction |-> p.lightDirection,
     sunAngularRadius |-> p.sunAngularRadius,
     sunHaloSize |-> p.sunHaloSize,
     sunHaloFalloff |-> p.sunHaloFalloff]

\* updateInstances of material_sandbox.h: it selects the instance of the
\* material index, sets its parameters and the light's, and returns it
updateInstances(p, insts) ==
    LET m == MaterialIndex(p.currentMaterialModel, p.currentBlending)
    IN  [material |-> m,
         mi |-> [insts EXCEPT ![m] = PushMaterial(@, p)],
         light |-> PushLight(p)]

\* createInstances of material_sandbox.h: one instance per material, and the
\* light entity params.light
createInstances == [i \in 0..(MATERIAL_COUNT - 1) |-> NoFields]

\* The branches without their tests on hasDirectionalLight
LightToggleUnguarded(p) ==
    IF p.directionalLightEnabled THEN "add"
    ELSE IF p.hasDirectionalLight THEN "remove"
    ELSE "none"

\* The branch ui takes to keep the light entity in step with the checkbox
LightToggle(p) ==
    IF p.directionalLightEnabled /\ ~p.hasDirectionalLight THEN "add"
    ELSE IF ~p.directionalLightEnabled /\ p.hasDirectionalLight THEN "remove"
    ELSE "none"

\* Camera::Fov chosen by animate for a viewport of w by h
Fov(w, h) == IF w < h THEN "HORIZONTAL" ELSE "VERTICAL"

----------------------------------------------------------------------------
\* Initial state: static initialisation of `app` is done, main has not run

InitEngine ==
    /\ mainCalled = FALSE
    /\ jsReady = FALSE
    /\ launched = FALSE
    /\ phase = "idle"
    /\ frames = 0
    /\ setupCount = 0
    /\ unsetRead = FALSE
    /\ app = [filamesh |-> FALSE, cam |-> FALSE, skylight |-> FALSE,
              scene |-> FALSE, mat |-> FALSE, mi |-> FALSE, sun |-> FALSE]
    /\ open = DefaultOpen
    /\ shown = {}
    /\ pushed = {}
    /\ material = MATERIAL_LIT
    /\ mi = NoFields
    /\ meshMaterial = MATERIAL_COUNT
    /\ meshCastShadows = TRUE
    /\ scene = {}
    /\ sceneMisuse = FALSE
    /\ light = NoFields
    /\ ibl = NoFields
    /\ meshData = "absent"
    /\ decoded = FALSE
    /\ pendingRelease = 0
    /\ frees = 0
    /\ proj = "unset"

\* sandbox.cpp: SandboxParameters is the struct of material_sandbox.h
Init ==
    /\ InitEngine
    /\ params = [n \in (DOMAIN SandboxParameters) \cup (DOMAIN HeaderParameters) |->
                    IF n \in DOMAIN SandboxParameters THEN SandboxParameters[n]
                    ELSE HeaderParameters[n]]

\* part_000: SandboxParameters is the struct the file itself declares
InitP0 ==
    /\ InitEngine
    /\ params = SandboxParameters

----------------------------------------------------------------------------
\* samples/web/sandbox.cpp

setup ==
    /\ setupCount' = setupCount + 1
    /\ params' = [params EXCEPT
                    !.iblIntensity = 10000000,
                    !.lightDirection = <<0, 0, -1000>>,
                    !.iblRotation = M_PI,
                    !.clearCoat = 700,
                    !.metallic = 250,
                    !.reflectance = 750,
                    !.color = <<620, 463, 290>>]
    /\ mi' = createInstances
    /\ meshData' = StaticMesh(meshData)
    /\ decoded' = TRUE
    /\ pendingRelease' = pendingRelease + NumMeshBuffers
    /\ meshMaterial' = MATERIAL_LIT
    /\ LET r == AddEntity(scene, "renderable")
           l == AddEntity(r.scene, "light")
       IN  /\ scene' = l.scene
           /\ sceneMisuse' = (sceneMisuse \/ r.misuse \/ l.misuse)
    /\ ibl' = NoFields
    /\ light' = NoFields
    /\ app' = [app EXCEPT !.scene = TRUE, !.filamesh = TRUE, !.skylight = TRUE,
                          !.cam = TRUE]
    /\ UNCHANGED <<frames, unsetRead, open, shown, pushed, material,
                   meshCastShadows, frees, proj>>

\* filaweb::Application::run(setup, animate, ui): it calls setup, and the frame
\* loop then calls animate and ui once per frame
run ==
    /\ setup
    /\ phase' = "animate"

\* A main() that starts the application itself
main_calls_run ==
    /\ ~mainCalled
    /\ mainCalled' = TRUE
    /\ run
    /\ UNCHANGED <<jsReady, launched>>

\* int main() { }
main ==
    /\ ~mainCalled
    /\ mainCalled' = TRUE
    /\ UNCHANGED <<jsReady, launched, phase, frames, setupCount, unsetRead, app,
                   params, open, shown, pushed, material, mi, meshMaterial,
                   meshCastShadows, scene, sceneMisuse, light, ibl, meshData,
                   decoded, pendingRelease, frees, proj>>

\* The JavaScript layer has created the WebGL 2.0 context and downloaded the
\* assets
AssetsReady ==
    /\ ~jsReady
    /\ jsReady' = TRUE
    /\ UNCHANGED <<mainCalled, launched, phase, frames, setupCount, unsetRead,
                   app, params, open, shown, pushed, material, mi, meshMaterial,
                   meshCastShadows, scene, sceneMisuse, light, ibl, meshData,
                   decoded, pendingRelease, frees, proj>>

launch ==
    /\ mainCalled
    /\ jsReady
    /\ ~launched
    /\ launched' = TRUE
    /\ run
    /\ UNCHANGED <<mainCalled, jsReady>>

animate(w, h) ==
    /\ phase = "animate"
    /\ frames < MaxFrames
    /\ unsetRead' = (unsetRead \/ ~app.cam)
    /\ proj' = Fov(w, h)
    /\ phase' = "ui"
    /\ UNCHANGED <<mainCalled, jsReady, launched, frames, setupCount, app,
                   params, open, shown, pushed, material, mi, meshMaterial,
                   meshCastShadows, scene, sceneMisuse, light, ibl, meshData,
                   decoded, pendingRelease, frees>>

ui(ev) ==
    /\ phase = "ui"
    /\ open' = CollapsingHeader(open, ev)
    /\ \E p \in {Draw(params, open', ev)} :
       LET u == updateInstances(p, mi)
           t == LightToggle(p)
           s == CASE t = "add" -> AddEntity(scene, "light")
                  [] t = "remove" -> RemoveEntity(scene, "light")
                  [] OTHER -> [scene |-> scene, misuse |-> FALSE]
       IN  /\ shown' = ShownWidgets(p, open')
           /\ material' = u.material
           /\ pushed' = PushedParams(p.currentMaterialModel, p.currentBlending)
           /\ mi' = u.mi
           /\ light' = u.light
           /\ meshMaterial' = u.material
           /\ meshCastShadows' = p.castShadows
           /\ scene' = s.scene
           /\ sceneMisuse' = (sceneMisuse \/ s.misuse)
           /\ params' = [p EXCEPT !.hasDirectionalLight =
                            CASE t = "add" -> TRUE
                              [] t = "remove" -> FALSE
                              [] OTHER -> @]
           /\ ibl' = [intensity |-> p.iblIntensity,
                      rotation |-> [angle |-> p.iblRotation,
                                    axis |-> <<0, 1000, 0>>]]
    /\ unsetRead' = (unsetRead \/ ~app.filamesh \/ ~app.scene \/ ~app.skylight)
    /\ phase' = "animate"
    /\ frames' = frames + 1
    /\ UNCHANGED <<mainCalled, jsReady, launched, setupCount, app, meshData,
                   decoded, pendingRelease, frees, proj>>

\* The engine invokes the release callback of one buffer of the mesh
ReleaseCallback ==
    /\ pendingRelease > 0
    /\ pendingRelease' = pendingRelease - 1
    /\ LET r == destructor(meshData)
       IN  /\ meshData' = r.data
           /\ frees' = frees + (IF r.freed THEN 1 ELSE 0)
    /\ UNCHANGED <<mainCalled, jsReady, launched, phase, frames, setupCount,
                   unsetRead, app, params, open, shown, pushed, material, mi,
                   meshMaterial, meshCastShadows, scene, sceneMisuse, light,
                   ibl, decoded, proj>>

----------------------------------------------------------------------------
\* What the user does to the window in one frame: nothing, a click on a
\* header, or one widget moved to a requested value

NoEvent == [w |-> "none", v |-> 0, i |-> 1]

ColorInputs == {<<0, 0, 0>>, <<1000, 1000, 1000>>}

\* Requested slider positions: beyond either end, and the middle
SliderInputs(lo, hi) == {lo - 1, lo + ((hi - lo) \div 2), hi + 1}

\* The events on widget or header w
Events(w) ==
    CASE w \in Headers \cup Checkboxes -> {[w |-> w, v |-> 0, i |-> 1]}
      [] w = "currentMaterialModel" -> {[w |-> w, v |-> v, i |-> 1] : v \in Models}
      [] w = "currentBlending" -> {[w |-> w, v |-> v, i |-> 1] : v \in Blendings}
      [] w \in ColorEdits -> {[w |-> w, v |-> v, i |-> 1] : v \in ColorInputs}
      [] w \in Sliders ->
            {[w |-> w, v |-> v, i |-> 1] :
                v \in SliderInputs(SliderRange[w][1], SliderRange[w][2])}
      [] w = "lightDirection" ->
            {[w |-> w, v |-> v, i |-> i] :
                v \in SliderInputs(SliderRange[w][1], SliderRange[w][2]),
                i \in 1..3}
      [] w = "iblRotation" ->
            {[w |-> w, v |-> v, i |-> 1] :
                v \in SliderInputs(SliderAngleRange[1], SliderAngleRange[2])}
      [] OTHER -> {NoEvent}

Interactions == Widgets \cup Headers \cup {"none"}

Viewports == {<<1, 2>>, <<2, 1>>}

Next ==
    \/ main
    \/ AssetsReady
    \/ launch
    \/ \E vp \in Viewports : animate(vp[1], vp[2])
    \/ \E w \in Interactions : \E ev \in Events(w) : ui(ev)
    \/ ReleaseCallback

Spec == Init /\ [][Next]_vars

----------------------------------------------------------------------------
\* unnamed/part_000: one material (sandboxLit) with one instance, app.mi.
\* The "Debug" header of its window edits properties of the engine's debug
\* registry only and is left out.

\* LightManager::Builder(SUN) ... build(*engine, app.sun)
p0_sun ==
    [color |-> [rgbType |-> "LINEAR", rgb |-> <<980, 920, 890>>],
     intensity |-> 110000000,
     direction |-> <<700, -1000, -800>>,
     sunAngularRadius |-> 1200,
     castShadows |-> TRUE]

p0_setup ==
    /\ setupCount' = setupCount + 1
    /\ mi' = (MATERIAL_LIT :> Put(NoFields, "clearCoat", 0))
    /\ meshData' = StaticMesh(meshData)
    /\ decoded' = TRUE
    /\ pendingRelease' = pendingRelease + NumMeshBuffers
    /\ meshMaterial' = MATERIAL_LIT
    /\ light' = p0_sun
    /\ LET r == AddEntity(scene, "renderable")
           l == AddEntity(r.scene, "light")
       IN  /\ scene' = l.scene
           /\ sceneMisuse' = (sceneMisuse \/ r.misuse \/ l.misuse)
    /\ ibl' = NoFields
    /\ app' = [app EXCEPT !.mat = TRUE, !.mi = TRUE, !.filamesh = TRUE,
                          !.sun = TRUE, !.cam = TRUE]
    /\ UNCHANGED <<frames, unsetRead, params, open, shown, pushed, material,
                   meshCastShadows, frees, proj>>

p0_run ==
    /\ p0_setup
    /\ phase' = "animate"

p0_main == main

p0_launch ==
    /\ mainCalled
    /\ jsReady
    /\ ~launched
    /\ launched' = TRUE
    /\ p0_run
    /\ UNCHANGED <<mainCalled, jsReady>>

p0_animate(w, h) ==
    /\ phase = "animate"
    /\ frames < MaxFrames
    /\ unsetRead' = (unsetRead \/ ~app.cam \/ ~app.filamesh)
    /\ proj' = Fov(w, h)
    /\ phase' = "ui"
    /\ UNCHANGED <<mainCalled, jsReady, launched, frames, setupCount, app,
                   params, open, shown, pushed, material, mi, meshMaterial,
                   meshCastShadows, scene, sceneMisuse, light, ibl, meshData,
                   decoded, pendingRelease, frees>>

p0_ui(ev) ==
    /\ phase = "ui"
    /\ open' = CollapsingHeader(open, ev)
    /\ \E p \in {Draw(params, open', ev)} :
        /\ params' = p
        /\ shown' = ShownWidgets(p, open')
        /\ material' = MaterialIndex(p.currentMaterialModel, p.currentBlending)
        /\ pushed' = PushedParams(p.currentMaterialModel, p.currentBlending)
        /\ mi' = [mi EXCEPT ![MATERIAL_LIT] = PushMaterial(@, p)]
    /\ unsetRead' = (unsetRead \/ ~app.mi)
    /\ phase' = "animate"
    /\ frames' = frames + 1
    /\ UNCHANGED <<mainCalled, jsReady, launched, setupCount, app, meshMaterial,
                   meshCastShadows, scene, sceneMisuse, light, ibl, meshData,
                   decoded, pendingRelease, frees, proj>>

NextP0 ==
    \/ p0_main
    \/ AssetsReady
    \/ p0_launch
    \/ \E vp \in Viewports : p0_animate(vp[1], vp[2])
    \/ \E w \in Interactions : \E ev \in Events(w) : p0_ui(ev)
    \/ ReleaseCallback

SpecP0 == InitP0 /\ [][NextP0]_vars

----------------------------------------------------------------------------
\* Properties

\* Release callbacks of the mesh's buffers the engine has invoked so far
CallbacksRun == (setupCount * NumMeshBuffers) - pendingRelease

\* C1: setup runs at most once and only once launch() has been called (main()
\* alone starts nothing); animate and ui run only after setup, and no callback
\* reads a field of app that setup has not assigned.
CallbackOrdering ==
    /\ setupCount <= 1
    /\ (setupCount = 1 => launched)
    /\ (~launched => phase = "idle" /\ frames = 0)
    /\ ((phase # "idle" \/ frames > 0) => setupCount = 1)
    /\ ((phase # "idle" \/ frames > 0) => app.cam /\ app.filamesh /\ app.skylight)
    /\ ~unsetRead

CallbackOrderingWitness ==
    /\ mainCalled
    /\ launched
    /\ setupCount = 1
    /\ frames >= 1
    /\ phase = "ui"

\* C2: every slider-bound member of the record lies inside its slider's range:
\* alpha, roughness, metallic, reflectance, clearCoat, clearCoatRoughness and
\* thickness in [0,1]; anisotropy in [-1,1]; subsurfacePower in [1,24];
\* lightIntensity in [0,150000]; each lightDirection component in [-1,1];
\* sunAngularRadius in [0.1,10]; sunHaloSize in [1.01,40]; sunHaloFalloff in
\* [0,2048]; iblIntensity in [0,50000].
SliderRangesHold ==
    /\ \A n \in {"alpha", "roughness", "metallic", "reflectance", "clearCoat",
                 "clearCoatRoughness", "thickness"} :
            params[n] >= 0 /\ params[n] <= 1000
    /\ params.anisotropy >= -1000 /\ params.anisotropy <= 1000
    /\ params.subsurfacePower >= 1000 /\ params.subsurfacePower <= 24000
    /\ params.lightIntensity >= 0 /\ params.lightIntensity <= 150000000
    /\ \A i \in 1..3 :
            params.lightDirection[i] >= -1000 /\ params.lightDirection[i] <= 1000
    /\ params.sunAngularRadius >= 100 /\ params.sunAngularRadius <= 10000
    /\ params.sunHaloSize >= 1010 /\ params.sunHaloSize <= 40000
    /\ params.sunHaloFalloff >= 0 /\ params.sunHaloFalloff <= 2048000
    /\ params.iblIntensity >= 0 /\ params.iblIntensity <= 50000000

\* Two sliders have been dragged past an end of their range
SliderRangesWitness ==
    /\ frames = 2
    /\ params.currentMaterialModel = MATERIAL_MODEL_SUBSURFACE
    /\ params.subsurfacePower = 1000

\* C3: after every ui frame the material instance of the mesh is the instance
\* of the selected material model, so frames with different models apply
\* different instances.
ModelSelectsInstance ==
    frames > 0 =>
        (IF meshMaterial \in {MATERIAL_LIT, MATERIAL_TRANSPARENT, MATERIAL_FADE}
         THEN MATERIAL_MODEL_LIT ELSE meshMaterial) = params.currentMaterialModel

\* The material parameters the claim lists for a model and a blending
ClaimedParams(m, b) ==
    CASE m = 0 -> {"baseColor"}
      [] m = 1 -> {"baseColor", "roughness", "metallic", "reflectance",
                   "clearCoat", "clearCoatRoughness", "anisotropy"}
                  \cup (IF b # 0 THEN {"alpha"} ELSE {})
      [] m = 2 -> {"baseColor", "roughness", "metallic", "reflectance",
                   "thickness", "subsurfacePower", "subsurfaceColor"}
      [] m = 3 -> {"baseColor", "roughness", "sheenColor", "subsurfaceColor"}

\* C4: at the end of every ui frame each material-instance parameter of the
\* selected model holds the value the record holds, and every other parameter
\* of the instance is as it was before the frame.
MaterialPushedEveryFrame ==
    [][(phase = "ui" /\ phase' = "animate") =>
        LET p == params'
            new == mi'[MATERIAL_LIT]
            old == mi[MATERIAL_LIT]
            set == ClaimedParams(p.currentMaterialModel, p.currentBlending)
        IN  \A n \in MaterialParams :
                IF n \in set
                THEN /\ n \in DOMAIN new
                     /\ IF n = "baseColor" THEN new[n].rgb = p.color
                        ELSE IF n \in {"subsurfaceColor", "sheenColor"}
                        THEN new[n].rgb = p[n]
                        ELSE new[n] = p[n]
                ELSE /\ (n \in DOMAIN new) = (n \in DOMAIN old)
                     /\ (n \in DOMAIN old => new[n] = old[n])]_vars

\* A subsurface frame has set thickness and left the clearCoat of setup alone
MaterialPushedWitness ==
    /\ frames = 2
    /\ params.currentMaterialModel = MATERIAL_MODEL_SUBSURFACE
    /\ params.thickness = 500
    /\ MATERIAL_LIT \in DOMAIN mi
    /\ "thickness" \in DOMAIN mi[MATERIAL_LIT]
    /\ mi[MATERIAL_LIT]["thickness"] = 500
    /\ mi[MATERIAL_LIT]["clearCoat"] = 0

\* C5: at the end of every ui frame the indirect light has the record's
\* iblIntensity and the rotation by iblRotation about the Y axis, and the
\* directional light has the record's light fields.
LightsPushedEveryFrame ==
    frames > 0 =>
        /\ DOMAIN ibl = {"intensity", "rotation"}
        /\ ibl.intensity = params.iblIntensity
        /\ ibl.rotation = [angle |-> params.iblRotation, axis |-> <<0, 1000, 0>>]
        /\ {"color", "intensity", "direction", "sunAngularRadius"} \subseteq DOMAIN light
        /\ light.color.rgb = params.lightColor
        /\ light.intensity = params.lightIntensity
        /\ light.direction = params.lightDirection
        /\ light.sunAngularRadius = params.sunAngularRadius

\* C6: the raw mesh data is released only by the release callback and only
\* after decodeMesh has been given it; once a callback has run the asset holds
\* no data, and the callbacks of the other buffers leave it so: the data is
\* freed once.
MeshReleasedOnce ==
    /\ frees <= 1
    /\ (meshData = "null" <=> CallbacksRun > 0)
    /\ (meshData = "null" <=> frees = 1)
    /\ (meshData = "null" => decoded)
    /\ (decoded <=> meshData # "absent")

\* Every buffer's callback has run, the second on the already released asset
MeshReleasedWitness ==
    /\ decoded
    /\ CallbacksRun >= 2
    /\ pendingRelease = 0
    /\ meshData = "null"
    /\ frees = 1

EditableIffForwarded ==
    (frames > 0 /\ open.Material) =>
        \A n \in MaterialParams : (ParamField(n) \in shown) <=> (n \in pushed)

\* C9: currentBlending changes only in a ui frame whose model, once the model
\* combo has been applied, is lit; in a frame whose model is unlit, subsurface
\* or cloth it keeps its value.
BlendingFrozenOutsideLit ==
    [][params'.currentBlending # params.currentBlending =>
        /\ phase = "ui"
        /\ params'.currentMaterialModel = MATERIAL_MODEL_LIT]_vars

\* A blending chosen under lit has outlived a change of model
BlendingFrozenWitness ==
    /\ frames = 2
    /\ params.currentMaterialModel = MATERIAL_MODEL_CLOTH
    /\ params.currentBlending = BLENDING_FADE

\* C10: the material index ui computes is the model's own index, except that
\* lit with transparent blending gives MATERIAL_TRANSPARENT and lit with fade
\* blending MATERIAL_FADE; it is below MATERIAL_COUNT, and it is
\* MATERIAL_TRANSPARENT or MATERIAL_FADE only when the model is lit.
MaterialIndexSelection ==
    frames > 0 =>
        LET m == params.currentMaterialModel
            b == params.currentBlending
        IN  /\ material = (IF m = 1 /\ b = 1 THEN 4
                           ELSE IF m = 1 /\ b = 2 THEN 5
                           ELSE m)
            /\ material < MATERIAL_COUNT
            /\ (material \in {MATERIAL_TRANSPARENT, MATERIAL_FADE}
                    => m = MATERIAL_MODEL_LIT)

\* A non-lit model with a non-opaque blending keeps its own index
MaterialIndexWitness ==
    /\ frames = 2
    /\ params.currentMaterialModel = MATERIAL_MODEL_SUBSURFACE
    /\ params.currentBlending = BLENDING_TRANSPARENT
    /\ material = MATERIAL_SUBSURFACE

====
